---------------------------- MODULE Spec2Model ----------------------------
(***************************************************************************)
(* UniSim Live Pressure Viewer (src/main.py).                              *)
(*                                                                         *)
(* The program is a Tk application: MainApp builds a UniSimConnector,      *)
(* four buttons call _start_sim, _stop_sim, _plot_inlet and _plot_outlet,  *)
(* and every LivePlot window polls the simulation from a single-shot Tk    *)
(* timer that _update re-arms.  Tk runs one callback at a time, so every   *)
(* handler is one atomic action.  A message box is a blocking call inside  *)
(* its handler; the action records its title in last.dialog.  No handler   *)
(* does anything after its message box, so events served while the box is  *)
(* open interleave as if the handler had already returned.                 *)
(*                                                                         *)
(* Not modelled: _layout and the drawing calls (presentation only), the    *)
(* refresh interval (it sets the delay of a timer, not whether it fires),  *)
(* and closing the main window, which ends the run.                        *)
(*                                                                         *)
(* The simulation (the COM server) is the environment: its integrator time *)
(* advances while IsRunning = 1, the stream pressures change as it         *)
(* integrates, and a read through an existing handle returns the current   *)
(* value or may raise (the code expects it: try/except in _update).  A property put *)
(* on IsRunning through a live connection is taken to succeed, as the code *)
(* takes it (start/stop have no handler for it).                           *)
(*                                                                         *)
(* Numbers.  Times are whole seconds.  Pressures are whole kPa; the y-axis *)
(* computation is done exactly, in units of 1e-6 kPa (the data spread) and *)
(* 1e-8 kPa (the axis limits), instead of in float32/float64.              *)
(***************************************************************************)
EXTENDS Integers, Sequences, FiniteSets, TLC

\* ------------------------------------------------------------- bounds ---
\* MAX_POINTS is the deque capacity of src/main.py:29 (1200 there), scaled
\* down so that a buffer fills and rolls over within the model.
MAX_POINTS == 2
\* Chart windows that can be opened in one run (window objects 1..MaxWindows).
MaxWindows == 2
\* Integrator steps the simulation takes in one run.
MaxTicks == 1

\* The x-axis shows the last 60 s (src/main.py:132-133).
XSPAN == 60
\* Simulated seconds per integrator step: more than the x-axis spans, so that
\* the axis scrolls.
TickSeconds == XSPAN + XSPAN \div 2

Wins == 1..MaxWindows
\* Tk timer identifiers ("after#N").  Tk never hands out an identifier twice;
\* the model hands out the least identifier that no open window still
\* holds and no pending timer carries, which is indistinguishable to the
\* program and keeps the identifiers finite.
Ids == 1..(MaxWindows + 1)
\* Python's None, and a value v that is present, for the optional fields
\* (_after_id, current_ymin/current_ymax) and for the outcome of a getter
\* (None = it raised).
None == <<>>
Some(v) == <<v>>
Val(o) == o[1]

\* Pressures the two streams can have; disjoint, so that a sample tells which
\* stream it was read from.
InletPressures == {1, 2}
OutletPressures == {3, 4}
PressureStates ==
  {[Inlet |-> p, Outlet |-> q] : p \in InletPressures, q \in OutletPressures}

VARIABLES
  pc,            \* "boot" before MainApp() ran, "run" in the Tk main loop
  win32com,      \* TRUE iff the import of win32com.client succeeded
  us,            \* the UniSimConnector: connected, and which handles are set
  IsRunning,     \* Solver.Integrator.IsRunning of the simulation case
  simTime,       \* sim.Solver.Integrator.GetTime()
  PressureValue, \* PressureValue of the streams Inlet and Outlet of the case
  nwin,          \* LivePlot windows created so far
  stream,        \* per window: the stream its y_getter reads ("" = uncreated)
  open,          \* per window: created and not destroyed
  x, y,          \* per window: the two deques
  after_id,      \* per window: _after_id (None or a timer identifier)
  xlim, ylim,    \* per window: axis limits (None = the library's defaults)
  current_y,     \* per window: <<current_ymin, current_ymax>>, or None
  timers,        \* pending Tk timers: set of <<identifier, window>>
  uncaught,      \* TRUE iff an exception escaped a handler
  last           \* the last handler run: its name, window, getter calls, dialog

vars == <<pc, win32com, us, IsRunning, simTime, PressureValue, nwin, stream, open, x, y,
          after_id, xlim, ylim, current_y, timers, uncaught, last>>

simVars == <<win32com, us, IsRunning, simTime, PressureValue>>
winVars == <<nwin, stream, open, x, y, after_id, xlim, ylim, current_y, timers>>

Event(op, w, calls, dialog) ==
  [op |-> op, w |-> w, calls |-> calls, dialog |-> dialog]

Init ==
  /\ pc = "boot"
  /\ win32com \in BOOLEAN
  /\ us = [connected |-> FALSE, app |-> FALSE, sim |-> FALSE,
           inlet |-> FALSE, outlet |-> FALSE]
  /\ IsRunning \in {0, 1}
  /\ simTime = 0
  /\ PressureValue = [Inlet |-> 1, Outlet |-> 3]
  /\ nwin = 0
  /\ stream = [w \in Wins |-> ""]
  /\ open = [w \in Wins |-> FALSE]
  /\ x = [w \in Wins |-> <<>>]
  /\ y = [w \in Wins |-> <<>>]
  /\ after_id = [w \in Wins |-> None]
  /\ xlim = [w \in Wins |-> None]
  /\ ylim = [w \in Wins |-> None]
  /\ current_y = [w \in Wins |-> None]
  /\ timers = {}
  /\ uncaught = FALSE
  /\ last = Event("none", 0, <<>>, "")


\* ------------------------------------------------------ UniSimConnector ---
\* The steps of the try block of UniSimConnector.__init__, in order.
ConnectSteps == <<"Dispatch", "app.Visible", "SimulationCases.Open",
                  "sim.Visible", "sim.Flowsheet", "Item(Inlet)", "Item(Outlet)">>
\* fail is the index of the step that raises; NoFailure when none does.
NoFailure == Len(ConnectSteps) + 1
Step(name) == CHOOSE k \in 1..Len(ConnectSteps) : ConnectSteps[k] = name

\* A fault: connected is assigned before the two streams are looked up.
UniSimConnector_early(fail) ==
  IF ~win32com
    THEN [connected |-> FALSE, app |-> FALSE, sim |-> FALSE,
          inlet |-> FALSE, outlet |-> FALSE]
    ELSE [connected |-> fail > Step("sim.Flowsheet"),
          app       |-> fail > Step("Dispatch"),
          sim       |-> fail > Step("SimulationCases.Open"),
          inlet     |-> fail > Step("Item(Inlet)"),
          outlet    |-> fail > Step("Item(Outlet)")]

\* A fault: the Outlet stream is looked up before the Inlet stream.
UniSimConnector_swapped(fail) ==
  IF ~win32com
    THEN [connected |-> FALSE, app |-> FALSE, sim |-> FALSE,
          inlet |-> FALSE, outlet |-> FALSE]
    ELSE [connected |-> fail > Step("Item(Outlet)"),
          app       |-> fail > Step("Dispatch"),
          sim       |-> fail > Step("SimulationCases.Open"),
          inlet     |-> fail > Step("Item(Outlet)"),
          outlet    |-> fail > Step("Item(Inlet)")]

\* The connector __init__ leaves behind.  An attribute is set when the step
\* that assigns it completed; connected is assigned after the last step;
\* the except clause swallows the exception of the failing step.
UniSimConnector(fail) ==
  IF ~win32com
    THEN [connected |-> FALSE, app |-> FALSE, sim |-> FALSE,
          inlet |-> FALSE, outlet |-> FALSE]
    ELSE [connected |-> fail > Step("Item(Outlet)"),
          app       |-> fail > Step("Dispatch"),
          sim       |-> fail > Step("SimulationCases.Open"),
          inlet     |-> fail > Step("Item(Inlet)"),
          outlet    |-> fail > Step("Item(Outlet)")]

\* Outcomes of the getters: Some(value), or None when the call raises.  A
\* missing attribute always raises (AttributeError); a COM read may raise.
sim_time == IF us.sim THEN {Some(simTime), None} ELSE {None}
inlet_pressure ==
  IF us.inlet THEN {Some(PressureValue.Inlet), None} ELSE {None}
outlet_pressure ==
  IF us.outlet THEN {Some(PressureValue.Outlet), None} ELSE {None}

\* A fault: both plot buttons are given the outlet getter.
y_getter_outlet(s) == outlet_pressure
y_getter(s) == IF s = "Inlet" THEN inlet_pressure ELSE outlet_pressure
GetterName(s) == IF s = "Inlet" THEN "inlet_pressure" ELSE "outlet_pressure"

\* A fault: stop assigns 1, as start does.
stop_sets_running == IF us.connected THEN 1 ELSE IsRunning

\* UniSimConnector.start / stop: the value IsRunning has afterwards.
start == IF us.connected THEN 1 ELSE IsRunning
stop == IF us.connected THEN 0 ELSE IsRunning

\* ------------------------------------------------------------ MainApp ---
MainApp ==
  /\ pc = "boot"
  /\ \E fail \in 1..NoFailure : us' = UniSimConnector(fail)
  /\ pc' = "run"
  /\ uncaught' = FALSE
  /\ last' = Event("MainApp", 0, <<>>, "")
  /\ UNCHANGED <<win32com, IsRunning, simTime, PressureValue, winVars>>

DemoDialog == "Demo"

_start_sim ==
  /\ pc = "run"
  /\ IsRunning' = (IF us.connected THEN start ELSE IsRunning)
  /\ last' = IF us.connected
               THEN Event("_start_sim", 0, <<"IsRunning">>, "")
               ELSE Event("_start_sim", 0, <<>>, DemoDialog)
  /\ UNCHANGED <<pc, win32com, us, simTime, PressureValue, winVars, uncaught>>

_stop_sim ==
  /\ pc = "run"
  /\ IsRunning' = (IF us.connected THEN stop ELSE IsRunning)
  /\ last' = IF us.connected
               THEN Event("_stop_sim", 0, <<"IsRunning">>, "")
               ELSE Event("_stop_sim", 0, <<>>, DemoDialog)
  /\ UNCHANGED <<pc, win32com, us, simTime, PressureValue, winVars, uncaught>>


\* ----------------------------------------------------------- LivePlot ---
Min(S) == CHOOSE m \in S : \A n \in S : m <= n
Max(S) == CHOOSE m \in S : \A n \in S : m >= n
Range(q) == {q[i] : i \in 1..Len(q)}

\* A fault: a deque without maxlen.
append_unbounded(d, v) == Append(d, v)

\* deque(maxlen=MAX_POINTS).append: a full deque drops its leftmost item.
append(d, v) == IF Len(d) = MAX_POINTS THEN Append(Tail(d), v) ELSE Append(d, v)

\* The x limits _update sets: the window of XSPAN seconds ending at the last
\* time of the buffer, never starting below 0.
XLim(x_data) ==
  LET xmin == Max({0, x_data[Len(x_data)] - XSPAN})
  IN  <<xmin, xmin + XSPAN>>

\* <<new_ymin, new_ymax>> in units of 1e-6: the extremes of the buffer,
\* pulled apart by 1e-6 each when they coincide.
NewY(y_data) ==
  LET lo == Min(Range(y_data)) * 1000000
      hi == Max(Range(y_data)) * 1000000
  IN  IF lo = hi THEN <<lo - 1, hi + 1>> ELSE <<lo, hi>>

\* new_ymin < current_ymin * 0.99, with new in 1e-6 and cur in 1e-8 units:
\* new * 10^4 < cur * 99, evaluated without leaving 32 bits.
Below99(new, cur) ==
  LET d == new - 99 * (cur \div 10000)
      r == 99 * (cur % 10000)
  IN  IF d <= 0 THEN d < 0 \/ r > 0
      ELSE IF d >= 100 THEN FALSE
      ELSE d * 10000 < r

\* new_ymax > current_ymax * 1.01: new * 10^4 > cur * 101.
Above101(new, cur) ==
  LET d == new - 101 * (cur \div 10000)
      r == 101 * (cur % 10000)
  IN  IF d <= 0 THEN FALSE
      ELSE IF d >= 102 THEN TRUE
      ELSE d * 10000 > r

update_ylim(cur, new) ==
  \/ cur = None
  \/ Below99(new[1], Val(cur)[1])
  \/ Above101(new[2], Val(cur)[2])

\* The limits set_ylim(new_ymin * 0.98, new_ymax * 1.02) installs, in 1e-8.
YLim(new) == <<98 * new[1], 102 * new[2]>>

\* The identifier Tk gives the next timer: none that a pending timer of tm
\* carries or an open window still holds in _after_id.
after(tm) ==
  LET held == {t[1] : t \in tm}
                \cup {Val(after_id[v]) : v \in {u \in Wins : open[u] /\ after_id[u] # None}}
  IN  Min(Ids \ held)

DataError == "Data error"

\* A fault: no timer is scheduled once the buffers are full.
schedule_until_full(tm, id, w) ==
  IF Len(x[w]) = MAX_POINTS THEN tm ELSE tm \cup {<<id, w>>}

\* A fault: after is called twice.
schedule_twice(tm, id, w) == tm \cup {<<id, w>>, <<id + 1, w>>}

\* self.after(interval, self._update): the pending timers with one more, of
\* window w, carrying identifier id.
schedule(tm, id, w) == tm \cup {<<id, w>>}

\* A fault: the except branch schedules the next _update before it returns.
_update_except_rearm(op, w, calls, tm) ==
  /\ last' = Event(op, w, calls, DataError)
  /\ after_id' = [after_id EXCEPT ![w] = Some(after(tm))]
  /\ timers' = tm \cup {<<after(tm), w>>}
  /\ UNCHANGED <<x, y, xlim, ylim, current_y>>

\* The except branch of _update: the getter named last in calls raised.  The
\* dialog is shown and _update returns.
_update_except(op, w, calls, tm) ==
  /\ last' = Event(op, w, calls, DataError)
  /\ timers' = tm
  /\ UNCHANGED <<x, y, xlim, ylim, current_y, after_id>>

\* _update after both getters returned: t_val and y_val are appended, the
\* limits follow the buffers, and the next _update is scheduled.
_update_ok(op, w, calls, tm, t_val, y_val) ==
  LET x_data == append(x[w], t_val)
      y_data == append(y[w], y_val)
      new == NewY(y_data)
      id == after(tm)
  IN  /\ x' = [x EXCEPT ![w] = x_data]
      /\ y' = [y EXCEPT ![w] = y_data]
      /\ xlim' = [xlim EXCEPT ![w] = Some(XLim(x_data))]
      /\ IF update_ylim(current_y[w], new)
           THEN /\ ylim' = [ylim EXCEPT ![w] = Some(YLim(new))]
                /\ current_y' = [current_y EXCEPT ![w] = Some(YLim(new))]
           ELSE UNCHANGED <<ylim, current_y>>
      /\ after_id' = [after_id EXCEPT ![w] = Some(id)]
      /\ timers' = schedule(tm, id, w)
      /\ last' = Event(op, w, calls, "")

\* LivePlot._update of window w, whose y_getter reads stream s, with tm the
\* timers pending when it is called.  The time getter is called first; the
\* pressure getter only if it returned.
_update(op, w, s, tm) ==
  \E t_val \in sim_time, y_val \in y_getter(s) :
    IF t_val = None
      THEN _update_except(op, w, <<"sim_time">>, tm)
    ELSE IF y_val = None
      THEN _update_except(op, w, <<"sim_time", GetterName(s)>>, tm)
    ELSE _update_ok(op, w, <<"sim_time", GetterName(s)>>, tm,
                    Val(t_val), Val(y_val))

\* LivePlot.__init__: the next window object, its fields as the constructor
\* sets them (empty deques, _after_id None, no limits), then its first
\* _update.
LivePlot(op, s) ==
  /\ pc = "run"
  /\ nwin < MaxWindows
  /\ LET w == nwin + 1
     IN  /\ nwin' = w
         /\ stream' = [stream EXCEPT ![w] = s]
         /\ open' = [open EXCEPT ![w] = TRUE]
         /\ _update(op, w, s, timers)
  /\ UNCHANGED <<pc, simVars, uncaught>>

_plot_inlet == LivePlot("_plot_inlet", "Inlet")
_plot_outlet == LivePlot("_plot_outlet", "Outlet")

\* The Tk timer of window w fires: it is spent, and its callback _update runs.
TimerFire(w) ==
  /\ pc = "run"
  /\ \E t \in timers :
       /\ t[2] = w
       /\ _update("_update", w, stream[w], timers \ {t})
  /\ UNCHANGED <<pc, simVars, uncaught, nwin, stream, open>>

\* A fault: _on_close does not cancel.
after_cancel_none(tm, id) == tm

\* after_cancel(id): the pending timers without the one that carries id.
after_cancel(tm, id) == {t \in tm : t[1] # id}

\* LivePlot._on_close (WM_DELETE_WINDOW of an open window).
_on_close(w) ==
  /\ pc = "run"
  /\ open[w]
  /\ timers' = IF after_id[w] # None
                 THEN after_cancel(timers, Val(after_id[w]))
                 ELSE timers
  /\ open' = [open EXCEPT ![w] = FALSE]
  /\ last' = Event("_on_close", w, <<>>, "")
  /\ UNCHANGED <<pc, simVars, uncaught, nwin, stream, x, y, after_id, xlim,
                 ylim, current_y>>

\* ------------------------------------------------------- environment ---
\* The integrator of the opened case takes a step while it is running: time
\* advances and the stream pressures move.
Integrate ==
  /\ pc = "run"
  /\ us.sim
  /\ IsRunning = 1
  /\ simTime < MaxTicks * TickSeconds
  /\ simTime' = simTime + TickSeconds
  /\ PressureValue' \in PressureStates
  /\ UNCHANGED <<pc, win32com, us, IsRunning, winVars, uncaught, last>>

Next ==
  \/ MainApp
  \/ _start_sim
  \/ _stop_sim
  \/ _plot_inlet
  \/ _plot_outlet
  \/ \E w \in Wins : TimerFire(w)
  \/ \E w \in Wins : _on_close(w)
  \/ Integrate

Spec == Init /\ [][Next]_vars

\* The Tk main loop runs every timer that stays pending.
LiveSpec == Spec /\ \A w \in Wins : WF_vars(TimerFire(w))

\* ============================================================ properties ==
\* Steps of the handlers, recognised by the action taken.
FirstUpdate(w) == (_plot_inlet \/ _plot_outlet) /\ nwin' = w
Polled(w) == FirstUpdate(w) \/ TimerFire(w)
\* _update of window w ran and both getters returned / and a getter raised.
UpdateOK(w) == Polled(w) /\ last'.dialog = ""
UpdateFailed(w) == Polled(w) /\ last'.dialog = DataError

HasTimer(w) == \E t \in timers : t[2] = w
TimersOf(w) == {t \in timers : t[2] = w}

\* C1 (state part): in every window the time buffer and the pressure buffer
\* have the same length, and that length is at most MAX_POINTS.
BuffersBounded ==
  \A w \in Wins : Len(x[w]) = Len(y[w]) /\ Len(x[w]) <= MAX_POINTS

\* C1 (step part): a successful _update appends the pair it read; when the
\* buffers are full it drops the oldest pair and keeps the others in order.
BuffersRoll ==
  \A w \in Wins :
    UpdateOK(w) =>
      IF Len(x[w]) = MAX_POINTS
        THEN /\ x'[w] = Append(Tail(x[w]), simTime)
             /\ y'[w] = Append(Tail(y[w]), PressureValue[stream'[w]])
        ELSE /\ x'[w] = Append(x[w], simTime)
             /\ y'[w] = Append(y[w], PressureValue[stream'[w]])

\* C1: the buffers x and y of a window have equal length, never more than
\* MAX_POINTS, and once full each successful _update drops the oldest pair
\* and keeps the newest MAX_POINTS pairs in arrival order.
C1_BoundedBuffers == []BuffersBounded /\ [][BuffersRoll]_vars

\* A window whose buffers are full and whose y limits still cover a reading
\* that is no longer in the buffer: a pair has been dropped.
C1_Witness ==
  \E w \in Wins :
    /\ Len(y[w]) = MAX_POINTS
    /\ current_y[w] # None
    /\ Val(current_y[w])[1] < YLim(NewY(y[w]))[1]

Created(w) == w <= nwin
Last(q) == q[Len(q)]
PollOps == {"_plot_inlet", "_plot_outlet", "_update"}

\* C2: while a window stays open and its getters succeed, a pending _update
\* timer is followed by the next successful _update, which leaves a new timer
\* pending; polling ends only by a close or a data error.
C2_LivePolling ==
  \A w \in Wins : \A i \in Ids :
    (open[w] /\ <<i, w>> \in timers)
      ~> \/ ~open[w]
         \/ last.w = w /\ last.op \in PollOps /\ last.dialog = DataError
         \/ \E j \in Ids \ {i} : <<j, w>> \in timers

\* A timer-driven _update has succeeded on a full buffer and re-armed the
\* timer.
C2_Witness ==
  /\ last.op = "_update"
  /\ last.dialog = ""
  /\ Len(x[last.w]) = MAX_POINTS
  /\ HasTimer(last.w)

\* C3 (step part): an _update in which a getter raises shows the dialog and
\* changes nothing else: no buffer, no limit, no _after_id, nothing of the
\* simulation, and it leaves no timer of the window pending.
ErrorOnlyDialog ==
  \A w \in Wins :
    UpdateFailed(w) =>
      /\ x' = x /\ y' = y
      /\ xlim' = xlim /\ ylim' = ylim /\ current_y' = current_y
      /\ after_id' = after_id
      /\ UNCHANGED simVars
      /\ last'.calls \in {<<"sim_time">>, <<"sim_time", GetterName(stream'[w])>>}
      /\ ~HasTimer(w)'

\* C3 (step part): a created window without a pending timer is not polled
\* and gets no timer.
NoTimerNoPoll ==
  \A w \in Wins :
    (Created(w) /\ ~HasTimer(w)) =>
      /\ ~Polled(w)
      /\ ~HasTimer(w)'
      /\ x'[w] = x[w] /\ y'[w] = y[w]

\* C3: when a getter raises in _update the only reaction is the 'Data error'
\* dialog: buffers and plot limits are unchanged, no further _update is
\* scheduled, and the window never polls again.
C3_ErrorStopsPolling == [][ErrorOnlyDialog /\ NoTimerNoPoll]_vars

\* The pressure getter raised, after the time getter returned, in a
\* timer-driven _update of an open window that holds samples.
C3_Witness ==
  /\ last.op = "_update"
  /\ last.dialog = DataError
  /\ Len(last.calls) = 2
  /\ open[last.w]
  /\ Len(x[last.w]) > 0
  /\ ~HasTimer(last.w)

\* C4 (state part): after Start (Stop) on a connected connector IsRunning is
\* 1 (0); on a connector that is not connected the press shows the 'Demo'
\* dialog and makes no call on the simulation.
LastPressDecides ==
  /\ last.op = "_start_sim" =>
       IF us.connected THEN IsRunning = 1 /\ last.dialog = ""
       ELSE last.dialog = DemoDialog /\ last.calls = <<>>
  /\ last.op = "_stop_sim" =>
       IF us.connected THEN IsRunning = 0 /\ last.dialog = ""
       ELSE last.dialog = DemoDialog /\ last.calls = <<>>

\* C4 (step part): IsRunning changes only by Start or Stop on a connected
\* connector; a press on a connector that is not connected changes nothing
\* of the simulation or of the windows.
OnlyButtonsSetRunning ==
  /\ IsRunning' # IsRunning =>
       /\ us.connected
       /\ \/ _start_sim /\ IsRunning' = 1
          \/ _stop_sim /\ IsRunning' = 0
  /\ ((_start_sim \/ _stop_sim) /\ ~us.connected) =>
       UNCHANGED <<simVars, winVars>>

\* C4: Start and Stop act on the simulation only when connected, IsRunning
\* then equals the last button pressed, and no chart window operation
\* changes IsRunning.
C4_StartStop == []LastPressDecides /\ [][OnlyButtonsSetRunning]_vars

\* Stop was pressed on a connected connector after the simulation had run.
C4_Witness ==
  /\ us.connected
  /\ last.op = "_stop_sim"
  /\ simTime > 0
  /\ IsRunning = 0

\* C5 (state part): a window records only the pressure of its own stream,
\* against simulation times that have been reached.
OwnStreamOnly ==
  \A w \in Wins :
    /\ stream[w] = "Inlet" => Range(y[w]) \subseteq InletPressures
    /\ stream[w] = "Outlet" => Range(y[w]) \subseteq OutletPressures
    /\ \A i \in 1..Len(x[w]) : x[w][i] <= simTime

\* C5 (step part): a button press creates the next window, with empty
\* buffers of its own; the pair a successful _update appends is the current
\* simulation time and the current pressure of the window's stream; a poll
\* or a close of one window leaves every other window's buffers, _after_id,
\* pending timer and open state as they were.
WindowsIndependent ==
  \A w \in Wins :
    /\ FirstUpdate(w) =>
         /\ w = nwin + 1 /\ ~open[w] /\ open'[w]
         /\ x[w] = <<>> /\ y[w] = <<>> /\ ~HasTimer(w)
         /\ stream'[w] = (IF _plot_inlet THEN "Inlet" ELSE "Outlet")
    /\ UpdateOK(w) =>
         /\ Last(x'[w]) = simTime
         /\ Last(y'[w]) = PressureValue[stream'[w]]
    /\ (Polled(w) \/ _on_close(w)) =>
         \A v \in Wins \ {w} :
           /\ x'[v] = x[v] /\ y'[v] = y[v]
           /\ after_id'[v] = after_id[v]
           /\ TimersOf(v)' = TimersOf(v)
           /\ open'[v] = open[v] /\ stream'[v] = stream[v]

\* C5: each chart window polls only its own stream, against the one
\* simulation time, with buffers and a timer of its own; closing a window or
\* a data error in it changes no other window's buffers and stops no other
\* window's polling.
C5_Independent == []OwnStreamOnly /\ [][WindowsIndependent]_vars

\* An Outlet window has just been polled successfully, and still has its
\* timer, next to an Inlet window that holds samples and has been closed or
\* has failed.
C5_Witness ==
  \E w, v \in Wins :
    /\ stream[w] = "Inlet" /\ stream[v] = "Outlet"
    /\ Len(y[w]) > 0 /\ ~HasTimer(w)
    /\ last.op = "_update" /\ last.w = v /\ last.dialog = ""
    /\ Len(y[v]) = MAX_POINTS /\ HasTimer(v)

\* C6 (state part): a window has at most one pending timer, and _after_id
\* holds its identifier.
OneTimer ==
  \A w \in Wins :
    /\ Cardinality(TimersOf(w)) <= 1
    /\ \A t \in TimersOf(w) : after_id[w] = Some(t[1])

\* C6 (step part): a successful _update appends exactly one pair and
\* schedules exactly one timer, a new one, whose identifier it stores in
\* _after_id; the timer that fired is spent.
OneShotReschedule ==
  \A w \in Wins :
    UpdateOK(w) =>
      /\ Len(x'[w]) = (IF Len(x[w]) = MAX_POINTS THEN MAX_POINTS ELSE Len(x[w]) + 1)
      /\ Len(y'[w]) = Len(x'[w])
      /\ Last(x'[w]) = simTime
      /\ after_id'[w] # None
      /\ after_id'[w] # after_id[w]
      /\ <<Val(after_id'[w]), w>> \notin timers
      /\ TimersOf(w)' = {<<Val(after_id'[w]), w>>}
      /\ timers' \ TimersOf(w)' = timers \ TimersOf(w)

\* C6: the refresh timer is single-shot and self-rescheduling: at most one
\* pending timer per window, one pair appended and one timer scheduled per
\* successful _update, and _after_id names the timer scheduled last.
C6_SingleShot == []OneTimer /\ [][OneShotReschedule]_vars

\* Two windows are polling at once, each on a timer of its own, the second
\* re-armed from a timer-driven _update.
C6_Witness ==
  /\ \A w \in Wins : open[w] /\ HasTimer(w) /\ Len(x[w]) > 1
  /\ last.op = "_update" /\ last.dialog = ""
  /\ \E w, v \in Wins : after_id[w] # after_id[v]

\* C7 (state part): a closed window has no pending timer.
ClosedHasNoTimer ==
  \A w \in Wins : (Created(w) /\ ~open[w]) => ~HasTimer(w)

\* C7 (step part): _on_close leaves the window closed with no timer pending
\* and touches no other timer; a closed window stays closed, is never polled
\* and keeps its buffers.
ClosedStaysQuiet ==
  \A w \in Wins :
    /\ _on_close(w) =>
         /\ ~open'[w]
         /\ ~HasTimer(w)'
         /\ timers' = timers \ TimersOf(w)
    /\ (Created(w) /\ ~open[w]) =>
         /\ ~open'[w]
         /\ ~Polled(w)
         /\ x'[w] = x[w] /\ y'[w] = y[w]

\* C7: closing a chart window stops its polling: _on_close cancels the
\* pending timer when one was scheduled and destroys the window; afterwards
\* no _update of that window runs and its buffers do not change, also when
\* no timer had been scheduled or _after_id names a timer that has fired.
C7_CloseStopsPolling == []ClosedHasNoTimer /\ [][ClosedStaysQuiet]_vars

\* Two closed windows: one closed before any timer was scheduled, the other
\* closed holding samples and a timer identifier.
C7_Witness ==
  \E w, v \in Wins :
    /\ Created(w) /\ ~open[w] /\ after_id[w] = None
    /\ Created(v) /\ ~open[v] /\ after_id[v] # None /\ Len(x[v]) = MAX_POINTS
    /\ last.op = "_on_close"

\* C8 (state part): connected holds only with pywin32 present and every
\* handle set; the handles are set in the order of the connection steps;
\* before construction nothing is set; no exception escapes.
ConnectedMeansAll ==
  /\ us.connected => win32com /\ us.app /\ us.sim /\ us.inlet /\ us.outlet
  /\ us.outlet => us.connected
  /\ us.inlet => us.sim
  /\ us.sim => us.app
  /\ us.app => win32com
  /\ pc = "boot" => ~us.connected /\ ~us.app
  /\ ~uncaught

\* C8 (step part): after construction the connector does not change.
ConnectorFrozen == pc = "run" => us' = us

\* C8: connected is true only if every connection step succeeded in order,
\* so it implies that sim, inlet and outlet are set; a failure or a missing
\* pywin32 leaves it false without raising; it never changes afterwards.
C8_Connected == []ConnectedMeansAll /\ [][ConnectorFrozen]_vars

\* The connection failed at the lookup of the Outlet stream: everything but
\* outlet is set, and the connector is not connected.
C8_Witness ==
  /\ pc = "run"
  /\ win32com /\ us.inlet /\ ~us.outlet /\ ~us.connected

\* The handles that the getters of a window on stream s read.
HandlesSet(s) == us.sim /\ (IF s = "Inlet" THEN us.inlet ELSE us.outlet)

NeverPolled(w) ==
  /\ x[w] = <<>> /\ y[w] = <<>>
  /\ after_id[w] = None
  /\ ~HasTimer(w)

\* C9 as stated: on a connector that is not connected every chart window
\* fails in its first _update: its buffers stay empty and it never gets a
\* timer.
C9_Original ==
  ~us.connected => \A w \in Wins : NeverPolled(w)

\* C9 (amended, state part): on a connector that is not connected, a window
\* whose getters read a handle that is not set is never polled.
DemoWindowsEmpty ==
  ~us.connected =>
    \A w \in Wins : (Created(w) /\ ~HandlesSet(stream[w])) => NeverPolled(w)

\* C9 (amended, step part): on a connector that is not connected a plot
\* button still opens a window and no exception escapes; its first _update
\* ends in the 'Data error' dialog when a handle its getters read is not
\* set, which is always so for an Outlet window.
DemoPlotFails ==
  \A w \in Wins :
    (FirstUpdate(w) /\ ~us.connected) =>
      /\ open'[w] /\ ~uncaught'
      /\ ~us.outlet
      /\ ~HandlesSet(stream'[w]) => last'.dialog = DataError /\ NeverPolled(w)'

\* C9 (amended): when the connector is not connected, a plot button still
\* opens a window and the application does not crash; the first _update
\* fails with 'Data error', leaving the buffers empty and no timer, whenever
\* a handle its getters read is missing: always for an Outlet window, and
\* for an Inlet window unless only the Outlet lookup failed.
C9_DemoPlots == []DemoWindowsEmpty /\ [][DemoPlotFails]_vars

\* Not connected, with the simulation case open: an Inlet and an Outlet
\* window have been opened and both failed in their first _update.
C9_Witness ==
  /\ ~us.connected /\ us.sim /\ ~us.inlet
  /\ nwin = MaxWindows
  /\ \E w, v \in Wins : stream[w] = "Inlet" /\ stream[v] = "Outlet"
  /\ \A w \in Wins : open[w] /\ NeverPolled(w)
  /\ last.dialog = DataError

=============================================================================
